---- MODULE Spec2Model ----
(***************************************************************************)
(* Personal Fitness Tracker (src/pft.py): a Streamlit script.  Every user  *)
(* interaction reruns the whole script top to bottom for that browser      *)
(* session: profile tab, daily tracking tab, progress tab.  The profile    *)
(* lives in st.session_state (per session); the four tracking categories   *)
(* live in CSV files in the working directory (shared by all sessions).    *)
(*                                                                         *)
(* A script run is modelled as a sequence of steps, one per file access    *)
(* (load_data / save_data), so that runs of two sessions can interleave    *)
(* exactly where the operating system lets them.                           *)
(*                                                                         *)
(* Numbers.  Integers are integers.  Floats that are decimal fractions     *)
(* (hours slept, body temperature, the stand-in prediction) are held in    *)
(* tenths.  A BMI is the exact quotient num/den of the source expression   *)
(* plus the sign err of the IEEE-754 rounding error of the binary64        *)
(* evaluation, which decides comparisons when the exact quotient sits on a *)
(* threshold.                                                              *)
(***************************************************************************)
EXTENDS Integers, Sequences, FiniteSets, TLC

VARIABLES
    files,       \* file name -> CSV file on disk (or absent)
    profile,     \* session -> st.session_state.profile (or not set)
    widget,      \* session -> state of the three calorie select boxes
    pc,          \* session -> position of the running script ("idle": no run)
    button,      \* session -> the button whose press started the current run
    form,        \* session -> the values submitted with the form of this run
    prediction,  \* session -> script variable `prediction` (tenths, -1: unset)
    frames,      \* session -> script variables calorie_data .. sleep_data
    ui,          \* session -> what the current run has rendered so far
    submitted,   \* history: session -> file name -> rows submitted, in order
    nsubmits,    \* history: number of log buttons pressed so far
    bmi_in,      \* argument of the get_bmi_category unit check
    category_out \* its result

vars == <<files, profile, widget, pc, button, form, prediction, frames, ui,
          submitted, nsubmits, bmi_in, category_out>>

-----------------------------------------------------------------------------
(* Bounds of the model.                                                    *)

\* log buttons pressed in one behaviour (all sessions together)
MaxSubmits == 2
\* largest BMI, in hundredths, fed to the get_bmi_category check
MaxBmi == 3200

-----------------------------------------------------------------------------
(* Text: a string is a sequence of one-character strings.                  *)

Digits == <<"0", "1", "2", "3", "4", "5", "6", "7", "8", "9">>

DigitSet == {Digits[i] : i \in 1..10}

DigitVal(c) == (CHOOSE i \in 1..10 : Digits[i] = c) - 1

\* str(n) for an int n >= 0
RECURSIVE IntToText(_)
IntToText(n) ==
    IF n < 10 THEN <<Digits[n + 1]>>
    ELSE IntToText(n \div 10) \o <<Digits[(n % 10) + 1]>>

IsIntText(t) == Len(t) > 0 /\ \A i \in 1..Len(t) : t[i] \in DigitSet

RECURSIVE TextToInt(_)
TextToInt(t) ==
    IF Len(t) = 0 THEN 0
    ELSE 10 * TextToInt(SubSeq(t, 1, Len(t) - 1)) + DigitVal(t[Len(t)])

\* repr(x) of a float x given in tenths: "7.5", "7.0", "121.3"
FloatToText(x10) == IntToText(x10 \div 10) \o <<".">> \o IntToText(x10 % 10)

\* position of the decimal point, 0 when there is none
DotAt(t) == IF \E i \in 1..Len(t) : t[i] = "."
            THEN CHOOSE i \in 1..Len(t) : t[i] = "." ELSE 0

IsFloatText(t) ==
    /\ DotAt(t) > 1
    /\ IsIntText(SubSeq(t, 1, DotAt(t) - 1))
    /\ Len(t) = DotAt(t) + 1
    /\ t[Len(t)] \in DigitSet

TextToFloat(t) ==
    10 * TextToInt(SubSeq(t, 1, DotAt(t) - 1)) + DigitVal(t[Len(t)])

TwoDigits(n) == <<Digits[(n \div 10) + 1], Digits[(n % 10) + 1]>>

\* datetime.date(2024, 1, d).isoformat(); the model's dates are days of 2024-01
DateToText(d) == <<"2", "0", "2", "4", "-", "0", "1", "-">> \o TwoDigits(d)

\* str(pd.Timestamp(2024, 1, d, h)): whole hours print without a fraction
TimestampToText(d, h) ==
    DateToText(d) \o <<" ">> \o TwoDigits(h) \o <<":", "0", "0", ":", "0", "0">>

IsDateText(t) ==
    /\ Len(t) = 10
    /\ SubSeq(t, 1, 8) = <<"2", "0", "2", "4", "-", "0", "1", "-">>
    /\ IsIntText(SubSeq(t, 9, 10))

IsTimestampText(t) ==
    /\ Len(t) = 19
    /\ IsDateText(SubSeq(t, 1, 10))
    /\ t[11] = " "
    /\ IsIntText(SubSeq(t, 12, 13))
    /\ SubSeq(t, 14, 19) = <<":", "0", "0", ":", "0", "0">>

\* the labels of the exercise select box, as text
LabelText(s) ==
    CASE s = "Running" -> <<"R", "u", "n", "n", "i", "n", "g">>
      [] s = "Walking" -> <<"W", "a", "l", "k", "i", "n", "g">>
      [] s = "Cycling" -> <<"C", "y", "c", "l", "i", "n", "g">>
      [] s = "Swimming" -> <<"S", "w", "i", "m", "m", "i", "n", "g">>
      [] OTHER -> <<"W", "e", "i", "g", "h", "t", " ",
                    "T", "r", "a", "i", "n", "i", "n", "g">>

-----------------------------------------------------------------------------
(* Python values held in a DataFrame cell.                                 *)

IntV(n) == [t |-> "int", n |-> n]
FloatV(x10) == [t |-> "float", x10 |-> x10]
StrV(text) == [t |-> "str", s |-> text]
DateV(d) == [t |-> "date", d |-> d]
TimestampV(d, h) == [t |-> "Timestamp", d |-> d, h |-> h]

\* how DataFrame.to_csv writes one cell
FormatCell(v) ==
    CASE v.t = "int" -> IntToText(v.n)
      [] v.t = "float" -> FloatToText(v.x10)
      [] v.t = "str" -> v.s
      [] v.t = "date" -> DateToText(v.d)
      [] OTHER -> TimestampToText(v.d, v.h)

\* pd.to_datetime of one cell of a date column
to_datetime(v) ==
    CASE v.t = "Timestamp" -> v
      [] v.t = "date" -> TimestampV(v.d, 0)
      [] v.t = "str" /\ IsDateText(v.s) ->
            TimestampV(TextToInt(SubSeq(v.s, 9, 10)), 0)
      [] v.t = "str" /\ IsTimestampText(v.s) ->
            TimestampV(TextToInt(SubSeq(v.s, 9, 10)), TextToInt(SubSeq(v.s, 12, 13)))
      [] OTHER -> [t |-> "ValueError"]

-----------------------------------------------------------------------------
(* DataFrames and CSV files.  A row maps column names to cells.            *)

DataFrame(columns) == [columns |-> columns, rows |-> <<>>]

Absent == [exists |-> FALSE]

ColumnIndex(header, c) == CHOOSE j \in 1..Len(header) : header[j] = c

\* dtype inference of pd.read_csv for column j of the parsed lines
ColumnType(lines, j) ==
    IF \A i \in 1..Len(lines) : IsIntText(lines[i][j]) THEN "int"
    ELSE IF \A i \in 1..Len(lines) :
                IsIntText(lines[i][j]) \/ IsFloatText(lines[i][j]) THEN "float"
    ELSE "str"

ParseCell(type, text) ==
    CASE type = "int" -> IntV(TextToInt(text))
      [] type = "float" ->
            FloatV(IF IsIntText(text) THEN 10 * TextToInt(text) ELSE TextToFloat(text))
      [] OTHER -> StrV(text)

read_csv(f) ==
    [columns |-> f.header,
     rows |-> [i \in 1..Len(f.lines) |->
                 [c \in {f.header[j] : j \in 1..Len(f.header)} |->
                     ParseCell(ColumnType(f.lines, ColumnIndex(f.header, c)),
                               f.lines[i][ColumnIndex(f.header, c)])]]]

\* data.to_csv(file_name, index=False): the header line, then one line per row
to_csv(data) ==
    [exists |-> TRUE,
     header |-> data.columns,
     lines |-> [i \in 1..Len(data.rows) |->
                  [j \in 1..Len(data.columns) |->
                      FormatCell(data.rows[i][data.columns[j]])]]]

\* save_data: the file system after the call
save_data(fs, file_name, data) == [fs EXCEPT ![file_name] = to_csv(data)]

\* mutant of load_data: the empty frame is built without the default columns
load_data_no_columns(fs, file_name, default_columns) ==
    IF fs[file_name].exists THEN read_csv(fs[file_name]) ELSE DataFrame(<<>>)

\* load_data: FileNotFoundError is caught and answered with an empty frame
load_data(fs, file_name, default_columns) ==
    IF fs[file_name].exists THEN read_csv(fs[file_name])
    ELSE DataFrame(default_columns)

\* mutant of concat: the new row is put in front of the history
concat_in_front(data, new_row) == [data EXCEPT !.rows = <<new_row>> \o @]

\* mutant of concat: the history read from the file is dropped
concat_new_only(data, new_row) == [data EXCEPT !.rows = <<new_row>>]

\* pd.concat([data, pd.DataFrame([new_row])], ignore_index=True); at every call
\* site the keys of new_row are the columns of data
concat(data, new_row) == [data EXCEPT !.rows = Append(@, new_row)]

\* data['date'] = pd.to_datetime(data['date'])
coerce_date(data) ==
    [data EXCEPT !.rows = [i \in 1..Len(@) |->
                             [@[i] EXCEPT !["date"] = to_datetime(@)]]]

calorie_file == "calorie_data.csv"
exercise_file == "exercise_data.csv"
water_file == "water_data.csv"
sleep_file == "sleep_data.csv"
FileNames == {calorie_file, exercise_file, water_file, sleep_file}

calorie_columns == <<"date", "calories_consumed", "calories_burned">>
exercise_columns == <<"date", "exercise_type", "duration">>
water_columns == <<"date", "glasses">>
sleep_columns == <<"date", "hours_slept", "sleep_quality">>

-----------------------------------------------------------------------------
(* BMI.                                                                    *)

\* sign of (binary64 value of weight / (height / 100) ** 2) - (exact quotient)
\* for the inputs of the profile form whose exact quotient is a category
\* threshold or a tie of the two-decimal display; elsewhere the sign decides
\* nothing and is 0
FloatErr(height, weight) ==
    CASE height = 160 /\ weight % 8 = 0 /\ weight % 16 # 0 -> -1
      [] height = 160 /\ weight = 64 -> -1
      [] height = 112 /\ weight = 98 -> -1
      [] height = 220 /\ weight = 121 -> -1
      [] height = 140 /\ weight = 49 -> 1
      [] OTHER -> 0

\* mutant of calculate_bmi: the height in metres is not squared
calculate_bmi_not_squared(height, weight) ==
    IF height > 0
    THEN [num |-> weight * 100, den |-> height, err |-> 0]
    ELSE [num |-> 0, den |-> 1, err |-> 0]

calculate_bmi(height, weight) ==
    IF height > 0
    THEN [num |-> weight * 10000, den |-> height * height,
          err |-> FloatErr(height, weight)]
    ELSE [num |-> 0, den |-> 1, err |-> 0]

\* bmi < t10/10 and t10/10 <= bmi, on binary64 values
Below(bmi, t10) ==
    \/ bmi.num * 10 < t10 * bmi.den
    \/ bmi.num * 10 = t10 * bmi.den /\ bmi.err < 0

AtLeast(bmi, t10) == ~Below(bmi, t10)

\* mutant of get_bmi_category: the ranges made to meet at 25 and 30
get_bmi_category_closed(bmi) ==
    IF Below(bmi, 185) THEN "Underweight"
    ELSE IF Below(bmi, 250) THEN "Normal weight"
    ELSE IF Below(bmi, 300) THEN "Overweight"
    ELSE "Obese"

get_bmi_category(bmi) ==
    IF Below(bmi, 185) THEN "Underweight"
    ELSE IF AtLeast(bmi, 185) /\ Below(bmi, 249) THEN "Normal weight"
    ELSE IF AtLeast(bmi, 250) /\ Below(bmi, 299) THEN "Overweight"
    ELSE "Obese"

\* f"{bmi:.2f}" in hundredths: round to nearest, ties to even on the binary64
\* value
Format2f(bmi) ==
    LET q == (bmi.num * 100) \div bmi.den
        r == (bmi.num * 100) % bmi.den
    IN  IF 2 * r < bmi.den THEN q
        ELSE IF 2 * r > bmi.den THEN q + 1
        ELSE IF bmi.err < 0 THEN q
        ELSE IF bmi.err > 0 THEN q + 1
        ELSE IF q % 2 = 0 THEN q ELSE q + 1

-----------------------------------------------------------------------------
(* The estimator.  model.predict is a fixed function of the six features   *)
(* (the forest is fitted once, with a fixed seed); the fitted forest is    *)
(* not part of the source, so a fixed function that depends on every       *)
(* feature stands for it.  Result in tenths of a kcal.                     *)

predict(Age, BMI, Duration, Heart_Rate, Body_Temp, Gender_Male) ==
    Duration * Heart_Rate + Age + (BMI.num \div BMI.den) + Body_Temp
    + 50 * Gender_Male

-----------------------------------------------------------------------------
(* Sessions and the state of one script run.                               *)

Sessions == {1, 2}

NoProfile == [set |-> FALSE]

NoForm == [form |-> "none"]

\* nothing rendered yet (a session that has not run the script)
Blank ==
    [page |-> FALSE, bmi_metric |-> -1, category |-> "", tracking |-> FALSE,
     prediction_metric |-> -1, success |-> "",
     calorie |-> "none", exercise |-> "none", water |-> "none", sleep |-> "none"]

NoFrames ==
    [calorie_data |-> DataFrame(<<>>), exercise_data |-> DataFrame(<<>>),
     water_data |-> DataFrame(<<>>), sleep_data |-> DataFrame(<<>>)]

\* the select boxes start on their first option (lines 102-104)
FirstOptions == [duration |-> 10, heart_rate |-> 60, body_temp |-> 360]

Init ==
    /\ files = [f \in FileNames |-> Absent]
    /\ profile = [s \in Sessions |-> NoProfile]
    /\ widget = [s \in Sessions |-> FirstOptions]
    /\ pc = [s \in Sessions |-> "idle"]
    /\ button = [s \in Sessions |-> "none"]
    /\ form = [s \in Sessions |-> NoForm]
    /\ prediction = [s \in Sessions |-> -1]
    /\ frames = [s \in Sessions |-> NoFrames]
    /\ ui = [s \in Sessions |-> Blank]
    /\ submitted = [s \in Sessions |-> [f \in FileNames |-> <<>>]]
    /\ nsubmits = 0
    /\ bmi_in = [num |-> 0, den |-> 100, err |-> 0]
    /\ category_out = ""

\* mutant of Gender_Male: every gender but Female counts as male
Gender_Male_not_female(p) == IF p.gender = "Female" THEN 0 ELSE 1

\* line 112
Gender_Male(p) == IF p.gender = "Male" THEN 1 ELSE 0

\* lines 106-115: the features come from the stored profile and the select boxes
Prediction(p, w) ==
    predict(p.age, p.bmi, w.duration, w.heart_rate, w.body_temp, Gender_Male(p))

\* mutant of StoredProfile: the profile is a script variable, lost on the next run
StoredProfile_not_kept(s, btn, gender, height, weight, age) ==
    IF btn = "update_profile"
    THEN [set |-> TRUE, gender |-> gender, height |-> height, weight |-> weight,
          age |-> age, bmi |-> calculate_bmi(height, weight)]
    ELSE NoProfile

\* lines 82-84: the profile the session holds after the profile tab has run
StoredProfile(s, btn, gender, height, weight, age) ==
    IF btn = "update_profile"
    THEN [set |-> TRUE, gender |-> gender, height |-> height, weight |-> weight,
          age |-> age, bmi |-> calculate_bmi(height, weight)]
    ELSE profile[s]

\* lines 69-116 of one run: the profile tab, the gate of the tracking tab and
\* the calorie prediction, up to the first file access.  btn is the button
\* whose press started the run ("none": a changed widget or a page load), w the
\* state of the select boxes, fm the submitted form.
Begin(s, btn, gender, height, weight, age, w, fm) ==
    LET p == StoredProfile(s, btn, gender, height, weight, age) IN
    /\ pc[s] = "idle"
    /\ profile' = [profile EXCEPT ![s] = p]
    /\ widget' = [widget EXCEPT ![s] = w]
    /\ button' = [button EXCEPT ![s] = btn]
    /\ form' = [form EXCEPT ![s] = fm]
    /\ prediction' = [prediction EXCEPT ![s] = IF p.set THEN Prediction(p, w) ELSE -1]
    /\ ui' = [ui EXCEPT ![s] =
                [Blank EXCEPT
                   !.page = TRUE,
                   !.success = IF btn = "update_profile" THEN "Profile Updated!" ELSE "",
                   !.bmi_metric = IF p.set THEN Format2f(p.bmi) ELSE -1,
                   !.category = IF p.set THEN get_bmi_category(p.bmi) ELSE "",
                   !.tracking = p.set,
                   !.prediction_metric = IF p.set THEN Prediction(p, w) ELSE -1]]
    /\ pc' = [pc EXCEPT ![s] =
                IF ~p.set THEN "viz_calorie"
                ELSE IF btn = "log_calories" THEN "cal_load"
                ELSE "ex_load"]
    /\ UNCHANGED <<files, frames, bmi_in, category_out>>

\* a page load, or a select box of the calorie tab changed (the boxes exist
\* only when the last run rendered the tracking tab)
Rerun(s, w) ==
    /\ w # widget[s] => ui[s].tracking
    /\ Begin(s, "none", "", 0, 0, 0, w, NoForm)
    /\ UNCHANGED <<submitted, nsubmits>>

\* the Update Profile button (line 82) with the values of the four inputs
UpdateProfile(s, gender, height, weight, age) ==
    /\ ui[s].page
    /\ Begin(s, "update_profile", gender, height, weight, age, widget[s], NoForm)
    /\ UNCHANGED <<submitted, nsubmits>>

\* the Log Calories Burned button (line 119)
LogCaloriesBurned(s) ==
    /\ ui[s].tracking
    /\ nsubmits < MaxSubmits
    /\ Begin(s, "log_calories", "", 0, 0, 0, widget[s], NoForm)
    /\ nsubmits' = nsubmits + 1
    /\ UNCHANGED submitted

\* a form submit button (lines 141, 159, 179) with the values of its form
SubmitForm(s, btn, file_name, fm) ==
    /\ ui[s].tracking
    /\ nsubmits < MaxSubmits
    /\ Begin(s, btn, "", 0, 0, 0, widget[s], fm)
    /\ nsubmits' = nsubmits + 1
    /\ submitted' = [submitted EXCEPT ![s][file_name] = Append(@, fm)]

LogExercise(s, exercise_date, exercise_type, duration) ==
    SubmitForm(s, "log_exercise", exercise_file,
               [exercise_date |-> exercise_date, exercise_type |-> exercise_type,
                duration |-> duration])

LogWaterIntake(s, water_date, glasses) ==
    SubmitForm(s, "log_water", water_file,
               [water_date |-> water_date, glasses |-> glasses])

LogSleepData(s, sleep_date, sleep_duration, sleep_quality) ==
    SubmitForm(s, "log_sleep", sleep_file,
               [sleep_date |-> sleep_date, sleep_duration |-> sleep_duration,
                sleep_quality |-> sleep_quality])

-----------------------------------------------------------------------------
(* The daily tracking tab (lines 93-185), one step per file access.        *)

\* the steps a run takes leave everything but the named variables alone
Step(s, from, to) ==
    /\ pc[s] = from
    /\ pc' = [pc EXCEPT ![s] = to]
    /\ UNCHANGED <<profile, widget, button, form, prediction, nsubmits,
                   bmi_in, category_out>>

\* line 123
CalorieLoad(s) ==
    /\ Step(s, "cal_load", "cal_save")
    /\ frames' = [frames EXCEPT ![s].calorie_data =
                    load_data(files, calorie_file, calorie_columns)]
    /\ UNCHANGED <<files, ui, submitted>>

\* lines 126-129; now is the value of pd.Timestamp.now(), <<day, hour>>
CalorieSave(s, now) ==
    LET new_row == [date |-> TimestampV(now[1], now[2]),
                    calories_consumed |-> IntV(0),
                    calories_burned |-> FloatV(prediction[s])]
        calorie_data == concat(frames[s].calorie_data, new_row)
    IN  /\ Step(s, "cal_save", "ex_load")
        /\ frames' = [frames EXCEPT ![s].calorie_data = calorie_data]
        /\ files' = save_data(files, calorie_file, calorie_data)
        /\ ui' = [ui EXCEPT ![s].success = "Calories burned logged successfully!"]
        /\ submitted' = [submitted EXCEPT ![s][calorie_file] =
                           Append(@, [now |-> now, prediction |-> prediction[s]])]

\* line 135, and the test of line 143
ExerciseLoad(s) ==
    /\ Step(s, "ex_load",
            IF button[s] = "log_exercise" THEN "ex_save" ELSE "water_load")
    /\ frames' = [frames EXCEPT ![s].exercise_data =
                    load_data(files, exercise_file, exercise_columns)]
    /\ UNCHANGED <<files, ui, submitted>>

\* mutant of ExerciseSave: the file is read again at the moment of the save
ExerciseSave_rereading(s) ==
    LET new_row == [date |-> DateV(form[s].exercise_date),
                    exercise_type |-> StrV(LabelText(form[s].exercise_type)),
                    duration |-> IntV(form[s].duration)]
        exercise_data ==
            concat(load_data(files, exercise_file, exercise_columns), new_row)
    IN  /\ Step(s, "ex_save", "water_load")
        /\ frames' = [frames EXCEPT ![s].exercise_data = exercise_data]
        /\ files' = save_data(files, exercise_file, exercise_data)
        /\ ui' = [ui EXCEPT ![s].success = "Exercise Data Logged Successfully!"]
        /\ UNCHANGED submitted

\* lines 144-147
ExerciseSave(s) ==
    LET new_row == [date |-> DateV(form[s].exercise_date),
                    exercise_type |-> StrV(LabelText(form[s].exercise_type)),
                    duration |-> IntV(form[s].duration)]
        exercise_data == concat(frames[s].exercise_data, new_row)
    IN  /\ Step(s, "ex_save", "water_load")
        /\ frames' = [frames EXCEPT ![s].exercise_data = exercise_data]
        /\ files' = save_data(files, exercise_file, exercise_data)
        /\ ui' = [ui EXCEPT ![s].success = "Exercise Data Logged Successfully!"]
        /\ UNCHANGED submitted

\* line 154, and the test of line 161
WaterLoad(s) ==
    /\ Step(s, "water_load",
            IF button[s] = "log_water" THEN "water_save" ELSE "sleep_load")
    /\ frames' = [frames EXCEPT ![s].water_data =
                    load_data(files, water_file, water_columns)]
    /\ UNCHANGED <<files, ui, submitted>>

\* lines 162-165
WaterSave(s) ==
    LET new_row == [date |-> DateV(form[s].water_date),
                    glasses |-> IntV(form[s].glasses)]
        water_data == concat(frames[s].water_data, new_row)
    IN  /\ Step(s, "water_save", "sleep_load")
        /\ frames' = [frames EXCEPT ![s].water_data = water_data]
        /\ files' = save_data(files, water_file, water_data)
        /\ ui' = [ui EXCEPT ![s].success = "Water Intake Logged Successfully!"]
        /\ UNCHANGED submitted

\* line 173, and the test of line 181
SleepLoad(s) ==
    /\ Step(s, "sleep_load",
            IF button[s] = "log_sleep" THEN "sleep_save" ELSE "viz_calorie")
    /\ frames' = [frames EXCEPT ![s].sleep_data =
                    load_data(files, sleep_file, sleep_columns)]
    /\ UNCHANGED <<files, ui, submitted>>

\* lines 182-185
SleepSave(s) ==
    LET new_row == [date |-> DateV(form[s].sleep_date),
                    hours_slept |-> FloatV(form[s].sleep_duration),
                    sleep_quality |-> IntV(form[s].sleep_quality)]
        sleep_data == concat(frames[s].sleep_data, new_row)
    IN  /\ Step(s, "sleep_save", "viz_calorie")
        /\ frames' = [frames EXCEPT ![s].sleep_data = sleep_data]
        /\ files' = save_data(files, sleep_file, sleep_data)
        /\ ui' = [ui EXCEPT ![s].success = "Sleep Data Logged Successfully!"]
        /\ UNCHANGED submitted

-----------------------------------------------------------------------------
(* The progress tab (lines 188-246).                                       *)

\* `if not data.empty:` coerce the date column and chart; what is rendered
Charted(data) == IF Len(data.rows) > 0 THEN coerce_date(data) ELSE data

\* lines 192-202
CalorieVisualization(s) ==
    LET calorie_data == load_data(files, calorie_file, calorie_columns) IN
    /\ Step(s, "viz_calorie", "viz_exercise")
    /\ frames' = [frames EXCEPT ![s].calorie_data = Charted(calorie_data)]
    /\ ui' = [ui EXCEPT ![s].calorie =
                IF Len(calorie_data.rows) > 0 THEN "chart" ELSE "warning"]
    /\ UNCHANGED <<files, submitted>>

\* mutant of ExerciseVisualization: the coerced frame is written back
ExerciseVisualization_saving(s) ==
    LET exercise_data == load_data(files, exercise_file, exercise_columns) IN
    /\ Step(s, "viz_exercise", "viz_water")
    /\ frames' = [frames EXCEPT ![s].exercise_data = Charted(exercise_data)]
    /\ ui' = [ui EXCEPT ![s].exercise =
                IF Len(exercise_data.rows) > 0 THEN "chart" ELSE @]
    /\ files' = IF Len(exercise_data.rows) > 0
                THEN save_data(files, exercise_file, Charted(exercise_data))
                ELSE files
    /\ UNCHANGED submitted

\* lines 204-212: there is no else branch
ExerciseVisualization(s) ==
    LET exercise_data == load_data(files, exercise_file, exercise_columns) IN
    /\ Step(s, "viz_exercise", "viz_water")
    /\ frames' = [frames EXCEPT ![s].exercise_data = Charted(exercise_data)]
    /\ ui' = [ui EXCEPT ![s].exercise =
                IF Len(exercise_data.rows) > 0 THEN "chart" ELSE @]
    /\ UNCHANGED <<files, submitted>>

\* lines 215-225
WaterVisualization(s) ==
    LET water_data == load_data(files, water_file, water_columns) IN
    /\ Step(s, "viz_water", "viz_sleep")
    /\ frames' = [frames EXCEPT ![s].water_data = Charted(water_data)]
    /\ ui' = [ui EXCEPT ![s].water =
                IF Len(water_data.rows) > 0 THEN "chart" ELSE "warning"]
    /\ UNCHANGED <<files, submitted>>

\* lines 228-246; the run ends here
SleepVisualization(s) ==
    LET sleep_data == load_data(files, sleep_file, sleep_columns) IN
    /\ Step(s, "viz_sleep", "idle")
    /\ frames' = [frames EXCEPT ![s].sleep_data = Charted(sleep_data)]
    /\ ui' = [ui EXCEPT ![s].sleep =
                IF Len(sleep_data.rows) > 0 THEN "chart" ELSE "warning"]
    /\ UNCHANGED <<files, submitted>>

-----------------------------------------------------------------------------
(* The inputs the checks draw from.                                        *)

Genders == {"Male", "Female", "Other"}

\* states of the select boxes of the calorie tab
Widgets == {[FirstOptions EXCEPT !.duration = d] : d \in {10, 60}}

\* values of pd.Timestamp.now(): <<day of 2024-01, hour>>
Times == {<<5, 9>>}

ExerciseForms ==
    {[exercise_date |-> 5, exercise_type |-> "Running", duration |-> 30],
     [exercise_date |-> 12, exercise_type |-> "Weight Training", duration |-> 0],
     [exercise_date |-> 5, exercise_type |-> "Walking", duration |-> 105]}

WaterForms ==
    {[water_date |-> 5, glasses |-> 8], [water_date |-> 31, glasses |-> 0]}

\* hours slept in tenths: 7.5 and 8.0
SleepForms ==
    {[sleep_date |-> 5, sleep_duration |-> 75, sleep_quality |-> 4],
     [sleep_date |-> 6, sleep_duration |-> 80, sleep_quality |-> 1]}

\* the steps of a running script
Run(s) ==
    \/ CalorieLoad(s)
    \/ \E now \in Times : CalorieSave(s, now)
    \/ ExerciseLoad(s)
    \/ ExerciseSave(s)
    \/ WaterLoad(s)
    \/ WaterSave(s)
    \/ SleepLoad(s)
    \/ SleepSave(s)
    \/ CalorieVisualization(s)
    \/ ExerciseVisualization(s)
    \/ WaterVisualization(s)
    \/ SleepVisualization(s)

\* one user, one browser session
Next ==
    \/ \E w \in Widgets : Rerun(1, w)
    \/ \E gender \in Genders : UpdateProfile(1, gender, 180, 80, 15)
    \/ LogCaloriesBurned(1)
    \/ \E fm \in ExerciseForms :
          LogExercise(1, fm.exercise_date, fm.exercise_type, fm.duration)
    \/ \E fm \in WaterForms : LogWaterIntake(1, fm.water_date, fm.glasses)
    \/ \E fm \in SleepForms :
          LogSleepData(1, fm.sleep_date, fm.sleep_duration, fm.sleep_quality)
    \/ Run(1)

Spec == Init /\ [][Next]_vars

-----------------------------------------------------------------------------
(* The profile form over its range: heights and weights at the ends of the *)
(* input ranges (lines 76, 78), on and next to the category thresholds.    *)

Heights == {100, 140, 160, 179, 180, 200, 250}
Weights == {30, 49, 64, 74, 80, 81, 100, 200}
Ages == {15, 100}

NextProfile ==
    \/ Rerun(1, FirstOptions)
    \/ \E height \in Heights, weight \in Weights, age \in Ages :
          UpdateProfile(1, "Female", height, weight, age)
    \/ ExerciseLoad(1)
    \/ WaterLoad(1)
    \/ SleepLoad(1)
    \/ CalorieVisualization(1)
    \/ ExerciseVisualization(1)
    \/ WaterVisualization(1)
    \/ SleepVisualization(1)

SpecProfile == Init /\ [][NextProfile]_vars

-----------------------------------------------------------------------------
(* Two browser sessions logging exercise against the same file.            *)

ConcForms ==
    {[exercise_date |-> 5, exercise_type |-> "Running", duration |-> 30],
     [exercise_date |-> 12, exercise_type |-> "Cycling", duration |-> 45]}

NextConc ==
    \E s \in Sessions :
        \/ Rerun(s, FirstOptions)
        \/ UpdateProfile(s, "Other", 180, 80, 15)
        \/ \E fm \in ConcForms :
              LogExercise(s, fm.exercise_date, fm.exercise_type, fm.duration)
        \/ ExerciseLoad(s)
        \/ ExerciseSave(s)
        \/ WaterLoad(s)
        \/ SleepLoad(s)
        \/ CalorieVisualization(s)
        \/ ExerciseVisualization(s)
        \/ WaterVisualization(s)
        \/ SleepVisualization(s)

SpecConc == Init /\ [][NextConc]_vars

-----------------------------------------------------------------------------
(* get_bmi_category on its own: every BMI k/100 up to MaxBmi/100, and the  *)
(* binary64 values just below and just above it.                           *)

InitBmi ==
    /\ Init!1 /\ Init!2 /\ Init!3 /\ Init!4 /\ Init!5 /\ Init!6 /\ Init!7
    /\ Init!8 /\ Init!9 /\ Init!10 /\ Init!11
    /\ bmi_in \in [num : 0..MaxBmi, den : {100}, err : {-1, 0, 1}]
    /\ category_out = ""

Classify ==
    /\ category_out = ""
    /\ category_out' = get_bmi_category(bmi_in)
    /\ UNCHANGED <<files, profile, widget, pc, button, form, prediction, frames,
                   ui, submitted, nsubmits, bmi_in>>

NextBmi == Classify

SpecBmi == InitBmi /\ [][NextBmi]_vars

-----------------------------------------------------------------------------
(* Properties.  Under Spec and SpecProfile only session 1 runs.            *)

LogButtons == {"log_calories", "log_exercise", "log_water", "log_sleep"}

\* the column set each category declares, as the specification lists them
DeclaredColumns(f) ==
    CASE f = "calorie_data.csv" -> <<"date", "calories_consumed", "calories_burned">>
      [] f = "exercise_data.csv" -> <<"date", "exercise_type", "duration">>
      [] f = "water_data.csv" -> <<"date", "glasses">>
      [] OTHER -> <<"date", "hours_slept", "sleep_quality">>

\* the script variable that holds the frame of file f
FrameOf(fr, f) ==
    CASE f = "calorie_data.csv" -> fr.calorie_data
      [] f = "exercise_data.csv" -> fr.exercise_data
      [] f = "water_data.csv" -> fr.water_data
      [] OTHER -> fr.sleep_data

\* what the progress tab shows for the category of file f
ShownFor(u, f) ==
    CASE f = "calorie_data.csv" -> u.calorie
      [] f = "exercise_data.csv" -> u.exercise
      [] f = "water_data.csv" -> u.water
      [] OTHER -> u.sleep

\* the history a load_data of file f returns now
History(f) == load_data(files, f, DeclaredColumns(f)).rows

\* a cell read back from the file: text that denotes day d, hour h
ReadsAs(cell, d, h) == cell.t = "str" /\ to_datetime(cell) = TimestampV(d, h)

\* a cell of the charted frame: the timestamp of day d, hour h
ChartsAs(cell, d, h) == cell = TimestampV(d, h)

Dated(charted, cell, d, h) ==
    IF charted THEN ChartsAs(cell, d, h) ELSE ReadsAs(cell, d, h)

\* row is the submitted record r of file f, as read back from the file or
\* (charted) as held by the charted frame
IsRecord(f, row, r, charted) ==
    CASE f = "calorie_data.csv" ->
            /\ Dated(charted, row.date, r.now[1], r.now[2])
            /\ row.calories_consumed = IntV(0)
            /\ row.calories_burned = FloatV(r.prediction)
      [] f = "exercise_data.csv" ->
            /\ Dated(charted, row.date, r.exercise_date, 0)
            /\ row.exercise_type = StrV(LabelText(r.exercise_type))
            /\ row.duration = IntV(r.duration)
      [] f = "water_data.csv" ->
            /\ Dated(charted, row.date, r.water_date, 0)
            /\ row.glasses = IntV(r.glasses)
      [] OTHER ->
            /\ Dated(charted, row.date, r.sleep_date, 0)
            /\ row.hours_slept = FloatV(r.sleep_duration)
            /\ row.sleep_quality = IntV(r.sleep_quality)

Finished(s) == pc[s] = "idle" /\ ui[s].page

LoadPcs(f) ==
    CASE f = "calorie_data.csv" -> {"cal_load", "viz_calorie"}
      [] f = "exercise_data.csv" -> {"ex_load", "viz_exercise"}
      [] f = "water_data.csv" -> {"water_load", "viz_water"}
      [] OTHER -> {"sleep_load", "viz_sleep"}

\* C2: a load of a category whose file does not exist returns a frame of zero
\* rows with that category's declared columns, creates no file, and the run
\* goes on to its next step
C2_LoadOfMissingFile ==
    [][\A f \in FileNames :
          (pc[1] \in LoadPcs(f) /\ ~files[f].exists) =>
              /\ FrameOf(frames'[1], f) = [columns |-> DeclaredColumns(f), rows |-> <<>>]
              /\ files' = files
              /\ pc'[1] # pc[1]]_vars

\* every category loaded from a missing file by the tracking tab
C2_Witness ==
    /\ pc[1] = "viz_calorie"
    /\ profile[1].set
    /\ \A f \in FileNames : ~files[f].exists
    /\ frames[1].exercise_data = [columns |-> <<"date", "exercise_type", "duration">>,
                                  rows |-> <<>>]
    /\ frames[1].sleep_data = [columns |-> <<"date", "hours_slept", "sleep_quality">>,
                               rows |-> <<>>]

\* bmi_in < t/100, on binary64 values (bmi_in.den is 100)
InBelow(t) == bmi_in.num < t \/ (bmi_in.num = t /\ bmi_in.err < 0)

\* C3: get_bmi_category answers Underweight iff b < 18.5, Normal weight iff
\* 18.5 <= b < 24.9, Overweight iff 25 <= b < 29.9 and Obese otherwise, so
\* every b in [24.9, 25) is Obese; 18.4 is Underweight, 18.5 Normal weight
C3_Categories ==
    category_out # "" =>
        /\ category_out \in {"Underweight", "Normal weight", "Overweight", "Obese"}
        /\ category_out = "Underweight" <=> InBelow(1850)
        /\ category_out = "Normal weight" <=> ~InBelow(1850) /\ InBelow(2490)
        /\ category_out = "Overweight" <=> ~InBelow(2500) /\ InBelow(2990)
        /\ (~InBelow(2490) /\ InBelow(2500)) => category_out = "Obese"
        /\ (bmi_in.num = 1840 /\ bmi_in.err = 0) => category_out = "Underweight"
        /\ (bmi_in.num = 1850 /\ bmi_in.err = 0) => category_out = "Normal weight"

\* 24.95 classified, as Obese
C3_Witness ==
    bmi_in.num = 2495 /\ bmi_in.err = 0 /\ category_out = "Obese"

\* a/b = c/d for naturals with b, d > 0, by Euclid's algorithm (no products)
RECURSIVE SameQuotient(_, _, _, _)
SameQuotient(a, b, c, d) ==
    /\ a \div b = c \div d
    /\ IF a % b = 0 \/ c % d = 0 THEN a % b = 0 /\ c % d = 0
       ELSE SameQuotient(b, a % b, d, c % d)

\* C4: the stored profile's bmi is weight / (height/100)^2 of the stored
\* height and weight (as a binary64 quotient), the category shown is
\* get_bmi_category of the stored bmi, and height 180, weight 80 shows 24.69
\* and Normal weight
C4_StoredBmi ==
    profile[1].set =>
        /\ profile[1].height \in 100..250 /\ profile[1].weight \in 30..200
        /\ SameQuotient(profile[1].bmi.num, profile[1].bmi.den,
                        profile[1].weight * 10000,
                        profile[1].height * profile[1].height)
        /\ profile[1].bmi.err \in {-1, 0, 1}
        /\ ui[1].category = get_bmi_category(profile[1].bmi)
        /\ ui[1].bmi_metric = Format2f(profile[1].bmi)
        /\ (profile[1].height = 180 /\ profile[1].weight = 80) =>
              ui[1].bmi_metric = 2469 /\ ui[1].category = "Normal weight"

\* the profile of height 180, weight 80 stored and shown
C4_Witness ==
    /\ Finished(1)
    /\ profile[1].set
    /\ profile[1].height = 180 /\ profile[1].weight = 80
    /\ ui[1].bmi_metric = 2469
    /\ ui[1].success = "Profile Updated!"

\* C5 as claimed: after every run, each category with an empty history shows
\* a placeholder and each other category a chart
C5_ChartOrPlaceholder ==
    Finished(1) =>
        \A f \in FileNames :
            IF Len(History(f)) = 0 THEN ShownFor(ui[1], f) = "warning"
            ELSE ShownFor(ui[1], f) = "chart"

VizPcs == {"viz_calorie", "viz_exercise", "viz_water", "viz_sleep"}

\* C6: no step of the progress tab changes a file, and a run that no log
\* button started changes none in any of its steps: an absent file stays
\* absent and an existing file keeps its lines
C6_ProgressReadsOnly ==
    [][(pc[1] \in VizPcs \/ button'[1] \notin LogButtons) => files' = files]_vars

\* a run without a log button has charted an existing exercise file (dates
\* coerced in memory) while the water file is absent, and both are as before
C6_Witness ==
    /\ Finished(1)
    /\ button[1] \notin LogButtons
    /\ files[exercise_file].exists
    /\ ~files[water_file].exists
    /\ ui[1].exercise = "chart" /\ ui[1].water = "warning"
    /\ frames[1].exercise_data.rows[1].date.t = "Timestamp"
    /\ History(exercise_file)[1].date.t = "str"

\* the lines of file f on disk, none when it is absent
LinesOf(fs, f) == IF fs[f].exists THEN fs[f].lines ELSE <<>>

\* the file the button btn logs to
FileOf(btn) ==
    CASE btn = "log_calories" -> "calorie_data.csv"
      [] btn = "log_exercise" -> "exercise_data.csv"
      [] btn = "log_water" -> "water_data.csv"
      [] OTHER -> "sleep_data.csv"

SavePcs == {"cal_save", "ex_save", "water_save", "sleep_save"}

C8_SaveWritesOwnSnapshot ==
    /\ [](Len(LinesOf(files, exercise_file))
            <= Len(submitted[1][exercise_file]) + Len(submitted[2][exercise_file]))
    /\ [][\A s \in Sessions :
          (pc[s] = "ex_save" /\ pc'[s] # "ex_save") =>
              /\ Len(LinesOf(files', exercise_file))
                    = Len(frames[s].exercise_data.rows) + 1
              /\ read_csv(files'[exercise_file]).rows[Len(files'[exercise_file].lines)].duration
                    = IntV(form[s].duration)
              /\ ui'[s].success = "Exercise Data Logged Successfully!"]_vars

\* both sessions loaded the empty history, both saved and reported success,
\* and the file holds one of the two records only
C8_Witness ==
    /\ Finished(1) /\ Finished(2)
    /\ ui[1].success = "Exercise Data Logged Successfully!"
    /\ ui[2].success = "Exercise Data Logged Successfully!"
    /\ Len(submitted[1][exercise_file]) = 1
    /\ Len(submitted[2][exercise_file]) = 1
    /\ submitted[1][exercise_file] # submitted[2][exercise_file]
    /\ Len(LinesOf(files, exercise_file)) = 1

\* C9: in a session no record is appended and no prediction is made before
\* the profile is set, and a profile once set stays set
C9_ProfileFirst ==
    /\ [](/\ (\E f \in FileNames : Len(submitted[1][f]) > 0 \/ files[f].exists)
              => profile[1].set
          /\ (prediction[1] # -1 \/ ui[1].prediction_metric # -1 \/ ui[1].tracking)
              => profile[1].set
          /\ pc[1] \notin {"idle"} \union VizPcs => profile[1].set)
    /\ [][profile[1].set => profile'[1].set /\ ui'[1].tracking]_vars

\* a record appended, in a session whose profile is set
C9_Witness ==
    /\ Finished(1)
    /\ profile[1].set
    /\ Len(submitted[1][water_file]) = 1
    /\ files[water_file].exists

\* the features of the estimator, from the stored profile and the select boxes
ExpectedPrediction ==
    predict(profile[1].age, profile[1].bmi, widget[1].duration,
            widget[1].heart_rate, widget[1].body_temp,
            IF profile[1].gender = "Male" THEN 1 ELSE 0)

\* C10: the row Log Calories Burned appends has calories_consumed 0 and
\* calories_burned equal to the prediction made in that run from the stored
\* profile and the selected duration, heart rate and body temperature, which
\* is the value displayed; only that button changes the calorie file
C10_CalorieRow ==
    /\ [](ui[1].tracking =>
            /\ ui[1].prediction_metric = ExpectedPrediction
            /\ prediction[1] = ExpectedPrediction)
    /\ [][files'[calorie_file] # files[calorie_file] =>
            /\ button[1] = "log_calories"
            /\ ui[1].tracking
            /\ LET row == History(calorie_file)'[Len(files'[calorie_file].lines)]
               IN  /\ row.calories_consumed = IntV(0)
                   /\ row.calories_burned = FloatV(ExpectedPrediction)
                   /\ row.calories_burned = FloatV(ui[1].prediction_metric)]_vars

\* a calorie row logged for a profile whose gender is Other, after 60 minutes
\* were selected
C10_Witness ==
    /\ Finished(1)
    /\ ui[1].success = "Calories burned logged successfully!"
    /\ profile[1].gender = "Other"
    /\ widget[1].duration = 60
    /\ Len(History(calorie_file)) = 1
    /\ History(calorie_file)[1].calories_consumed = IntV(0)

====
